---------------------------- MODULE Spec2Model ----------------------------
(***************************************************************************)
(* A model of the PDF export of glue-pictures: generatePdf, the grid       *)
(* layout it computes, and downscaleForPdf (src/src/app/lib/pdf.ts),       *)
(* called from the settings panel's "Genera PDF" button.                   *)
(*                                                                         *)
(* Numbers.  The code computes in IEEE doubles; the model computes in      *)
(* exact rationals with a fixed denominator:                               *)
(*   - lengths on the page are integers in units of 1/127 pt, because      *)
(*     PT_PER_MM = 72 / 25.4 = 360 / 127 and every padding is a whole      *)
(*     number of millimetres; a cell width carries the further             *)
(*     denominator safeColumns;                                            *)
(*   - maxSide is an integer number of half pixels, so that values such    *)
(*     as 1.5 (which the number input of the panel lets through) exist.    *)
(* Where the double result can differ from the exact one (a product that   *)
(* is exactly k + 1/2 before Math.round, a quotient that is exactly k      *)
(* before Math.floor) the operator yields the set of both results.         *)
(*                                                                         *)
(* Texts are sequences of one-character strings.                           *)
(***************************************************************************)
EXTENDS Integers, Sequences, FiniteSets, TLC

VARIABLES
    isBuilding,     \* React state of the panel: the in-flight flag
    status,         \* React state of the panel: the status line
    canBitmap,      \* typeof createImageBitmap === "function" in this browser
    inv,            \* inv[p]: the frame of invocation p of generatePdf
    ds,             \* one application of downscaleForPdf's size arithmetic
    geo,            \* one application of generatePdf's grid geometry
    fn              \* one application of the file name cleanup

vars == <<isBuilding, status, canBitmap, inv, ds, geo, fn>>

----------------------------------------------------------------------------
(* Bounds of the model *)

MaxCalls == 3       \* invocation frames that can exist at once
MaxUploads == 7     \* longest uploads list handed to generatePdf
MaxDim == 7         \* largest source image side, in pixels
MaxSideH == 9       \* largest maxSide, in half pixels
MaxColumns == 5     \* largest columns value of the geometry
MaxPlaced == 4      \* images placed when the grid is walked on its own
MaxNameLen == 5     \* longest file name given to the cleanup
MaxFairUploads == 3 \* longest uploads list of the exports run under fairness
MaxOverlap == 2     \* exports in flight at once when callers pass any flag

----------------------------------------------------------------------------
(* Program constants *)

PT_PER_MM_NUM == 360        \* 72 / 25.4 = 360 / 127
PT_PER_MM_DEN == 127
MIN_CELL_PT == 40           \* Math.max(40, ...)
HEADER_SPACE_PT == 40       \* headerText.trim() ? 40 : 0
LOGO_MAX_SIDE == 500        \* downscaleForPdf(logo, 500, 0.95)

PAGE_PRESETS ==
    [a4 |-> [width |-> 210, height |-> 297],
     letter |-> [width |-> 216, height |-> 279]]

----------------------------------------------------------------------------
(* Arithmetic helpers *)

Max(a, b) == IF a >= b THEN a ELSE b
Min(a, b) == IF a <= b THEN a ELSE b

\* floor(n / d) for d > 0, n of either sign
FloorDiv(n, d) == IF n >= 0 THEN n \div d ELSE -((-n + d - 1) \div d)

\* ceil(n / d) for d > 0, n >= 0
CeilDiv(n, d) == (n + d - 1) \div d

\* a length given in millimetres, in units of 1/127 pt
Mm(x) == x * PT_PER_MM_NUM
\* a length given in points, in units of 1/127 pt
Pt(x) == x * PT_PER_MM_DEN

----------------------------------------------------------------------------
(* Texts: String.prototype.trim and endsWith on character sequences *)

IsSpace(c) == c \in {" ", "\t", "\n"}

RECURSIVE TrimStart(_)
TrimStart(s) ==
    IF s = <<>> THEN s
    ELSE IF IsSpace(Head(s)) THEN TrimStart(Tail(s)) ELSE s

RECURSIVE TrimEnd(_)
TrimEnd(s) ==
    IF s = <<>> THEN s
    ELSE IF IsSpace(s[Len(s)]) THEN TrimEnd(SubSeq(s, 1, Len(s) - 1)) ELSE s

Trim(s) == TrimEnd(TrimStart(s))

\* a string used as a condition: the empty string is falsy
Truthy(s) == s # <<>>

----------------------------------------------------------------------------
(* downscaleForPdf: the size arithmetic (pdf.ts 230-234) *)

\* Math.floor in place of Math.round
MathRoundDown(num, den) == {num \div den}

\* Math.round(num / den), den > 0, num >= 0.  Math.round rounds a half up;
\* a product that is exactly k + 1/2 may reach Math.round as a double just
\* below it (13 * (15 / 26) = 7.499999999999999), so both k and k + 1 occur.
MathRound(num, den) ==
    IF 2 * (num % den) = den
    THEN {num \div den, num \div den + 1}
    ELSE {(2 * num + den) \div (2 * den)}

\* the ratio without Math.min(1, ...)
RatioNoMin(width, height, maxSideH) ==
    [num |-> maxSideH, den |-> 2 * Max(width, height)]

\* ratio = Math.min(1, maxSide / Math.max(width, height)), as num / den;
\* maxSideH is maxSide in half pixels
Ratio(width, height, maxSideH) ==
    IF maxSideH >= 2 * Max(width, height)
    THEN [num |-> 1, den |-> 1]
    ELSE [num |-> maxSideH, den |-> 2 * Max(width, height)]

\* Math.max(1, Math.round(side * ratio)): targetWidth and targetHeight
TargetSides(side, width, height, maxSideH) ==
    LET ratio == Ratio(width, height, maxSideH)
    IN  {Max(1, r) : r \in MathRound(side * ratio.num, ratio.den)}

\* the (targetWidth, targetHeight) pairs downscaleForPdf can produce
TargetDims(width, height, maxSideH) ==
    {[width |-> tw, height |-> th] :
        tw \in TargetSides(width, width, height, maxSideH),
        th \in TargetSides(height, width, height, maxSideH)}

\* the source's own type used as the output type
MimeTypeOfSource(type) == type

\* mimeType = file.type === "image/png" ? "image/png" : "image/jpeg"
MimeType(type) == IF type = "image/png" THEN "image/png" ELSE "image/jpeg"

----------------------------------------------------------------------------
(* generatePdf: the grid geometry (pdf.ts 49-69, 104-105).  g is the record  *)
(* of the arguments pageSize, columns, verticalPadding, leftPadding,        *)
(* rightPadding, gutter (millimetres) and headerText.                       *)

\* headerSpace = headerText.trim() ? 40 : 0, in units of 1/127 pt
HeaderSpace(g) ==
    IF Truthy(Trim(g.headerText)) THEN Pt(HEADER_SPACE_PT) ELSE 0

\* safeColumns = Math.max(1, columns)
SafeColumns(g) == Max(1, g.columns)

\* the free width with the gutters counted from columns, not safeColumns
FreeWidthRawColumns(g) ==
    Mm(PAGE_PRESETS[g.pageSize].width) - Mm(g.leftPadding) - Mm(g.rightPadding)
        - Mm(g.gutter) * (g.columns - 1)

\* (pageWidth - leftPaddingPt - rightPaddingPt - gutterPt * (safeColumns - 1)),
\* the numerator of the unclamped cell width over safeColumns
FreeWidth(g) ==
    Mm(PAGE_PRESETS[g.pageSize].width) - Mm(g.leftPadding) - Mm(g.rightPadding)
        - Mm(g.gutter) * (SafeColumns(g) - 1)

\* the cell width with a floor of 1 pt in place of 40 pt
CellWidthFloorOne(g) == Max(Pt(1) * SafeColumns(g), FreeWidth(g))

\* cellWidth = Math.max(40, FreeWidth / safeColumns), in units of
\* 1 / (127 * safeColumns) pt
CellWidth(g) == Max(Pt(MIN_CELL_PT) * SafeColumns(g), FreeWidth(g))

\* cellHeight = cellWidth
CellHeight(g) == CellWidth(g)

\* pageHeight - headerSpace - verticalPaddingPt * 2 + gutterPt, in units of
\* 1 / (127 * safeColumns) pt
FreeHeight(g) ==
    (Mm(PAGE_PRESETS[g.pageSize].height) - HeaderSpace(g)
        - Mm(g.verticalPadding) * 2 + Mm(g.gutter)) * SafeColumns(g)

\* cellHeight + gutterPt, in the same units; positive for gutter >= 0
RowPitch(g) == CellHeight(g) + Mm(g.gutter) * SafeColumns(g)

\* rowsPerPage = Math.max(1, Math.floor(FreeHeight / RowPitch)).  A quotient
\* that is exactly k may reach Math.floor as a double just below k (A4, one
\* column, paddings 2 / 27 / 39 mm, gutter 5 mm: exactly 2, computed 1).
RowsPerPage(g) ==
    LET k == FloorDiv(FreeHeight(g), RowPitch(g))
    IN  {Max(1, k)} \cup
        (IF FreeHeight(g) % RowPitch(g) = 0 THEN {Max(1, k - 1)} ELSE {})

\* x = leftPaddingPt + col * (cellWidth + gutterPt), in units of
\* 1 / (127 * safeColumns) pt
CellX(g, col) ==
    Mm(g.leftPadding) * SafeColumns(g)
        + col * (CellWidth(g) + Mm(g.gutter) * SafeColumns(g))

\* a baseY measured from the top of the page, header or not
CellYFromPageTop(g, row) ==
    (Mm(PAGE_PRESETS[g.pageSize].height) - Mm(g.verticalPadding)) * SafeColumns(g)
        - CellHeight(g) - row * RowPitch(g)

\* baseY = (pageHeight - headerSpace) - verticalPaddingPt - cellHeight
\*         - row * (cellHeight + gutterPt), in the same units
CellY(g, row) ==
    (Mm(PAGE_PRESETS[g.pageSize].height) - HeaderSpace(g)
        - Mm(g.verticalPadding)) * SafeColumns(g)
        - CellHeight(g) - row * RowPitch(g)

----------------------------------------------------------------------------
(* Inputs of the export *)

NoFile == [name |-> <<>>, type |-> "none", width |-> 0, height |-> 0]

\* the files a user can pick: a PNG, a JPEG without extension, a WebP
FILES ==
    << [name |-> <<"a", ".", "p">>, type |-> "image/png", width |-> 4, height |-> 2],
       [name |-> <<"b">>, type |-> "image/jpeg", width |-> 1, height |-> 7],
       [name |-> <<"c", ".", "w">>, type |-> "image/webp", width |-> 3, height |-> 3] >>

\* an uploads list of n items; from the fourth on it repeats the same files
Uploads(n) == [k \in 1..n |-> FILES[((k - 1) % Len(FILES)) + 1]]

TEXTS == {<<>>, <<" ">>, <<"T">>}
NO_QUALITY == 0 - 1         \* the quality argument left undefined

ExportArgs ==
    [uploads : {Uploads(n) : n \in 0..MaxUploads},
     pageSize : {"a4"},
     columns : {0, 2, 3},
     verticalPadding : {11, 60},
     leftPadding : {11},
     rightPadding : {11},
     gutter : {4},
     maxSide : {MaxSideH},
     jpegQuality : {85},
     fileName : {<<"a">>},
     headerText : TEXTS,
     footerText : {<<>>, <<"F">>},
     startingPageNumber : {1},
     logo : {NoFile, FILES[1], FILES[2]}]

\* exports of three images on two pages whose pages are numbered from 5 and
\* whose footer text is a single space, with maxSide 1 and MaxSideH / 2
NumberedArgs ==
    [uploads : {Uploads(3)},
     pageSize : {"a4"},
     columns : {2},
     verticalPadding : {60},
     leftPadding : {11},
     rightPadding : {11},
     gutter : {4},
     maxSide : {2, MaxSideH},
     jpegQuality : {85},
     fileName : {<<"a">>},
     headerText : TEXTS,
     footerText : {<<" ">>},
     startingPageNumber : {5},
     logo : {NoFile, FILES[1]}]

NoArgs ==
    [uploads |-> <<>>, pageSize |-> "a4", columns |-> 1, verticalPadding |-> 0,
     leftPadding |-> 0, rightPadding |-> 0, gutter |-> 0, maxSide |-> 2,
     jpegQuality |-> 0, fileName |-> <<>>, headerText |-> <<>>,
     footerText |-> <<>>, startingPageNumber |-> 0, logo |-> NoFile]

----------------------------------------------------------------------------
(* Status lines (setStatus).  A status is <<text, i, n>>. *)

StNull == <<"null", 0, 0>>
StPrep == <<"Preparazione...", 0, 0>>
StLogo == <<"Elaborazione logo...", 0, 0>>
StImage(i, n) == <<"Immagine i di n...", i, n>>
StSaving == <<"Sto generando il PDF...", 0, 0>>
StReady == <<"PDF pronto (x MB).", 0, 0>>
StError == <<"Non e' stato possibile generare il PDF. ...", 0, 0>>

----------------------------------------------------------------------------
(* Invocation frames *)

Procs == 1..MaxCalls

NoImage == [width |-> 0, height |-> 0, mimeType |-> "none", quality |-> NO_QUALITY]
NoDownload == [name |-> <<>>, pages |-> 0 - 1]

BlankFrame ==
    [pc |-> "idle",             \* the await the frame is suspended at
     phase |-> "Idle",
     args |-> NoArgs,
     rowsPerPage |-> 0,
     target |-> "none",         \* what downscaleForPdf is working on
     embeddedLogo |-> NoImage,
     i |-> 0, col |-> 0, row |-> 0,
     pages |-> 0,               \* pdfDoc.getPages().length
     canvas |-> NoImage,        \* target size and mime type of the image in work
     held |-> {},               \* decode resources acquired and not released
     embeds |-> <<>>,           \* embedPng / embedJpg calls that resolved
     drawn |-> <<>>,            \* page.drawImage calls of the image loop
     captions |-> <<>>,         \* page.drawText calls of the image loop
     decorated |-> <<>>,        \* per page, the draw calls of the decoration pass
     statusLog |-> <<>>,        \* the setStatus calls of this invocation
     download |-> NoDownload]   \* link.download at link.click()

Running(f) == f.pc \in {"create", "decode", "encode", "buffer", "embed", "save"}
Ended(f) == f.pc \in {"done", "failed"}

\* invocation p uses the lowest frame that is not suspended at an await
FreeSlot(p) == ~Running(inv[p]) /\ \A q \in 1..(p - 1) : Running(inv[q])

\* The promise of an ended invocation resumes the click handler that awaits
\* it in a microtask, before the browser dispatches the next click.
HandlersReturned == \A q \in Procs : ~Ended(inv[q])

\* the entry guard without the in-flight test
EntryGuardNoFlag(a, flag) == Len(a.uploads) = 0

\* the entry guard without the test of the uploads list
EntryGuardNoLength(a, flag) == flag

\* an entry guard that looks at the panel's state, not at its argument
EntryGuardOfState(a, flag) == Len(a.uploads) = 0 \/ isBuilding

\* if (!uploads.length || isBuilding) return;
EntryGuard(a, flag) == Len(a.uploads) = 0 \/ flag

\* setStatus(s), seen from the frame
SetStatus(f, s) == [f EXCEPT !.statusLog = Append(@, s)]

\* a catch block that hands out what has been built so far
CatchDelivers(f) ==
    SetStatus([f EXCEPT !.pc = "failed", !.phase = "Failed",
                        !.download = [name |-> f.args.fileName, pages |-> f.pages]],
              StError)

\* a catch inside the image loop: it reports the error and goes on with
\* the next image, if there is one
CatchSkipsImage(f) ==
    IF f.target = "image" /\ f.i + 1 < Len(f.args.uploads)
    THEN [f EXCEPT !.i = @ + 1, !.pc = "decode",
                   !.statusLog = @ \o <<StError,
                                        StImage(f.i + 2, Len(f.args.uploads))>>]
    ELSE SetStatus([f EXCEPT !.pc = "failed", !.phase = "Failed"], StError)

\* a catch block that starts the export again
CatchRetries(f) ==
    SetStatus([BlankFrame EXCEPT !.pc = "create", !.phase = "Preparing",
                                 !.args = f.args, !.rowsPerPage = f.rowsPerPage],
              StPrep)

\* catch (error) { console.error(error); setStatus("Non e' stato ...") }
Catch(f) ==
    SetStatus([f EXCEPT !.pc = "failed", !.phase = "Failed"], StError)

\* setIsBuilding(false) at the end of the try block instead of in finally
FinallyOnSuccess(f) == f.pc = "done"

\* finally { setIsBuilding(false) }: the frames that have left the try block
Finally(f) == f.pc \in {"done", "failed"}

\* file.name.replace(/\.[^/.]+$/, "")
BaseName(name) ==
    LET dots == {k \in 1..Len(name) : name[k] = "."}
        last == CHOOSE k \in dots : \A j \in dots : j <= k
    IN  IF dots = {} THEN name
        ELSE IF last < Len(name) /\ \A j \in (last + 1)..Len(name) : name[j] # "/"
             THEN SubSeq(name, 1, last - 1)
             ELSE name

----------------------------------------------------------------------------
(* generatePdf, between two awaits *)

\* the file downscaleForPdf is working on, and the maxSide it was given
CurFile(f) ==
    IF f.target = "logo" THEN f.args.logo ELSE f.args.uploads[f.i + 1]
CurMaxSideH(f) ==
    IF f.target = "logo" THEN 2 * LOGO_MAX_SIDE ELSE f.args.maxSide
CurQuality(f) ==
    IF f.target = "logo" THEN 95 ELSE f.args.jpegQuality

\* a decode resource: the ImageBitmap or the object URL made for the logo
\* or for the image of index i
Res(kind, target, i) == [kind |-> kind, target |-> target, i |-> i]
Bitmap(f) == Res("bitmap", f.target, f.i)
Url(f) == Res("url", f.target, f.i)

\* downscaleForPdf(file, ...) up to its first await, in loadDrawableImage:
\* createImageBitmap(file), or URL.createObjectURL(file) and img.src = url
StartDownscale(f, target) ==
    [f EXCEPT !.pc = "decode", !.target = target,
              !.held = @ \cup (IF canBitmap THEN {} ELSE {Res("url", target, f.i)})]

\* a downscaleForPdf that goes on to blob.arrayBuffer() without releasing
ReleaseNothing(f) == f

\* image.close() if the image is an ImageBitmap, and revoke?.()
Release(f) == [f EXCEPT !.held = @ \ {Bitmap(f), Url(f)}]

\* a loop head that reports the 0-based index: `Immagine ${i} di ${n}...`
BeginImageFromZero(f) ==
    StartDownscale(
        SetStatus([f EXCEPT !.phase = "ProcessingImage"],
                  StImage(f.i, Len(f.args.uploads))),
        "image")

\* the head of the image loop: setStatus(`Immagine ${i + 1} di ${n}...`) and
\* the call of downscaleForPdf(upload.file, maxSide, jpegQuality)
BeginImage(f) ==
    StartDownscale(
        SetStatus([f EXCEPT !.phase = "ProcessingImage"],
                  StImage(f.i + 1, Len(f.args.uploads))),
        "image")

\* let page = pdfDoc.addPage(...); let col = 0; let row = 0; and i = 0
FirstPage(f) ==
    BeginImage([f EXCEPT !.pages = 1, !.col = 0, !.row = 0, !.i = 0])

\* processed.mimeType === "image/png" ? embedPng : embedJpg
Embedder(mimeType) == IF mimeType = "image/png" THEN "embedPng" ELSE "embedJpg"

\* a page break that leaves the cursor where it was
NewPageKeepsCursor(f) ==
    IF f.row >= f.rowsPerPage
    THEN [f EXCEPT !.pages = @ + 1]
    ELSE f

\* if (row >= rowsPerPage) { page = pdfDoc.addPage(...); row = 0; col = 0; }
NewPageIfFull(f) ==
    IF f.row >= f.rowsPerPage
    THEN [f EXCEPT !.pages = @ + 1, !.row = 0, !.col = 0]
    ELSE f

\* a scale taken from the widths alone
ScaleNumOfWidth(g, w, h) == CellWidth(g) * h

\* scale = Math.min(cellWidth / embedded.width, cellHeight / embedded.height)
\* for an embedded image of w x h pixels, as the numerator over w * h
ScaleNum(g, w, h) == Min(CellWidth(g) * h, CellHeight(g) * w)

\* drawWidth = embedded.width * scale and drawHeight = embedded.height * scale,
\* in units of 1 / (127 * safeColumns * w * h) pt
DrawWidth(g, w, h) == w * ScaleNum(g, w, h)
DrawHeight(g, w, h) == h * ScaleNum(g, w, h)

\* the corner handed to drawImage, x + (cellWidth - drawWidth) / 2 and
\* baseY + (cellHeight - drawHeight) / 2, in units of
\* 1 / (2 * 127 * safeColumns * w * h) pt
DrawX(g, col, w, h) ==
    2 * w * h * CellX(g, col) + (CellWidth(g) * w * h - DrawWidth(g, w, h))
DrawY(g, row, w, h) ==
    2 * w * h * CellY(g, row) + (CellHeight(g) * w * h - DrawHeight(g, w, h))

\* what one iteration hands to page.drawImage: the image, its page and cell,
\* the cell's corner (x, y), the embedded size and the drawn box
Drawing(f) ==
    [i |-> f.i, page |-> f.pages - 1,
     col |-> f.col, row |-> f.row,
     x |-> CellX(f.args, f.col),
     y |-> CellY(f.args, f.row),
     width |-> f.canvas.width,
     height |-> f.canvas.height,
     drawWidth |-> DrawWidth(f.args, f.canvas.width, f.canvas.height),
     drawHeight |-> DrawHeight(f.args, f.canvas.width, f.canvas.height),
     drawX |-> DrawX(f.args, f.col, f.canvas.width, f.canvas.height),
     drawY |-> DrawY(f.args, f.row, f.canvas.width, f.canvas.height)]

\* a loop body that opens the new page and then goes on to the next image
\* without drawing the one in hand
DrawInCellUnlessNewPage(f) ==
    IF f.pages > 1 /\ f.row = 0 /\ f.col = 0
    THEN f
    ELSE [f EXCEPT
            !.drawn = Append(@, Drawing(f)),
            !.captions = Append(@, BaseName(CurFile(f).name))]

\* page.drawImage(embedded, ...) and the caption, in the cell of the cursor
DrawInCell(f) ==
    [f EXCEPT
        !.drawn = Append(@, Drawing(f)),
        !.captions = Append(@, BaseName(CurFile(f).name))]

\* a cursor that opens the next page as soon as the last row is full
AdvanceEagerPage(f) ==
    IF f.col + 1 >= SafeColumns(f.args)
    THEN IF f.row + 1 >= f.rowsPerPage
         THEN [f EXCEPT !.col = 0, !.row = 0, !.pages = @ + 1, !.i = @ + 1]
         ELSE [f EXCEPT !.col = 0, !.row = @ + 1, !.i = @ + 1]
    ELSE [f EXCEPT !.col = @ + 1, !.i = @ + 1]

\* a cursor that wraps one column late: if (col > safeColumns)
AdvanceWrapsLate(f) ==
    IF f.col + 1 > SafeColumns(f.args)
    THEN [f EXCEPT !.col = 0, !.row = @ + 1, !.i = @ + 1]
    ELSE [f EXCEPT !.col = @ + 1, !.i = @ + 1]

\* col += 1; if (col >= safeColumns) { col = 0; row += 1; }, and i++
Advance(f) ==
    IF f.col + 1 >= SafeColumns(f.args)
    THEN [f EXCEPT !.col = 0, !.row = @ + 1, !.i = @ + 1]
    ELSE [f EXCEPT !.col = @ + 1, !.i = @ + 1]

\* a decoration pass that draws the embedded logo on every page, header or not
DecoratePageLogoAlways(f, index) ==
    (IF Truthy(Trim(f.args.footerText)) THEN <<[op |-> "footer", n |-> 0]>> ELSE <<>>)
    \o (IF f.embeddedLogo # NoImage THEN <<[op |-> "logo", n |-> 0]>> ELSE <<>>)
    \o (IF Truthy(Trim(f.args.headerText))
        THEN <<[op |-> "header", n |-> 0]>>
        ELSE <<>>)
    \o <<[op |-> "pageNumber", n |-> f.args.startingPageNumber + index]>>

\* a decoration pass that tests the texts without trimming them
DecoratePageUntrimmed(f, index) ==
    (IF Truthy(f.args.footerText) THEN <<[op |-> "footer", n |-> 0]>> ELSE <<>>)
    \o (IF Truthy(f.args.headerText)
        THEN (IF f.embeddedLogo # NoImage THEN <<[op |-> "logo", n |-> 0]>> ELSE <<>>)
             \o <<[op |-> "header", n |-> 0]>>
        ELSE <<>>)
    \o <<[op |-> "pageNumber", n |-> f.args.startingPageNumber + index]>>

\* the draw calls of the decoration pass on the page of index `index`
DecoratePage(f, index) ==
    (IF Truthy(Trim(f.args.footerText)) THEN <<[op |-> "footer", n |-> 0]>> ELSE <<>>)
    \o (IF Truthy(Trim(f.args.headerText))
        THEN (IF f.embeddedLogo # NoImage THEN <<[op |-> "logo", n |-> 0]>> ELSE <<>>)
             \o <<[op |-> "header", n |-> 0]>>
        ELSE <<>>)
    \o <<[op |-> "pageNumber", n |-> f.args.startingPageNumber + index]>>

\* allPages.forEach(...), then setStatus("Sto generando il PDF...") and
\* the call of pdfDoc.save()
DecorateAndSave(f) ==
    SetStatus(
        [f EXCEPT !.decorated = [k \in 1..f.pages |-> DecoratePage(f, k - 1)],
                  !.phase = "Serializing", !.pc = "save"],
        StSaving)

\* cleanedName and link.download
EndsWithPdf(s) ==
    Len(s) >= 4 /\ SubSeq(s, Len(s) - 3, Len(s)) = <<".", "p", "d", "f">>
\* a cleanup that appends ".pdf" without looking at the name's end
DownloadNameAlwaysAppends(fileName) ==
    LET cleanedName ==
            IF Len(Trim(fileName)) > 0 THEN Trim(fileName)
            ELSE <<"r", "i", "s", "u", "l", "t", "a", "t", "o", ".", "p", "d", "f">>
    IN  cleanedName \o <<".", "p", "d", "f">>

DownloadName(fileName) ==
    LET cleanedName ==
            IF Len(Trim(fileName)) > 0 THEN Trim(fileName)
            ELSE <<"r", "i", "s", "u", "l", "t", "a", "t", "o", ".", "p", "d", "f">>
    IN  IF EndsWithPdf(cleanedName) THEN cleanedName
        ELSE cleanedName \o <<".", "p", "d", "f">>

\* link.click() and setStatus(`PDF pronto (...)`)
Deliver(f) ==
    SetStatus(
        [f EXCEPT !.download = [name |-> DownloadName(f.args.fileName),
                                pages |-> f.pages],
                  !.phase = "Done", !.pc = "done"],
        StReady)

\* the frame `frame` replaces frame p; the panel's state follows the
\* setStatus and setIsBuilding calls made on the way
Settle(p, frame) ==
    \E nf \in {frame} :
        /\ inv' = [inv EXCEPT ![p] = nf]
        /\ status' = IF Len(nf.statusLog) > Len(inv[p].statusLog)
                     THEN nf.statusLog[Len(nf.statusLog)]
                     ELSE status
        /\ isBuilding' = IF Finally(nf) THEN FALSE ELSE isBuilding
        /\ UNCHANGED <<canBitmap, ds, geo, fn>>

----------------------------------------------------------------------------
(* The actions of the export *)

\* generatePdf(a) called with isBuilding = flag, up to `await PDFDocument.create()`
GeneratePdf(p, a, flag) ==
    /\ IF EntryGuard(a, flag)
       THEN /\ inv' = [inv EXCEPT ![p] = [BlankFrame EXCEPT !.pc = "rejected",
                                                            !.args = a]]
            /\ UNCHANGED <<isBuilding, status>>
       ELSE /\ \E rows \in RowsPerPage(a) :
                inv' = [inv EXCEPT ![p] =
                           SetStatus([BlankFrame EXCEPT !.pc = "create",
                                                        !.phase = "Preparing",
                                                        !.args = a,
                                                        !.rowsPerPage = rows],
                                     StPrep)]
            /\ isBuilding' = TRUE
            /\ status' = StPrep
    /\ UNCHANGED <<canBitmap, ds, geo, fn>>

\* A call made with isBuilding = TRUE returns at once whatever its other
\* arguments are: one argument record stands for all of them.
CallArgs(flag) ==
    IF flag
    THEN {[NoArgs EXCEPT !.uploads = Uploads(1), !.columns = 3,
                         !.verticalPadding = 11,
                         !.leftPadding = 11, !.rightPadding = 11, !.gutter = 4,
                         !.jpegQuality = 85, !.fileName = <<"a">>,
                         !.startingPageNumber = 1]}
    ELSE ExportArgs \cup NumberedArgs

\* the button's onClick: async () => await generatePdf({uploads, isBuilding, ...})
\* with the isBuilding of the panel's state
Click(p) ==
    /\ HandlersReturned
    /\ FreeSlot(p)
    /\ \E a \in CallArgs(isBuilding) : GeneratePdf(p, a, isBuilding)

\* the click handler's `await generatePdf(...)` resumes and the handler returns
Return(p) ==
    /\ Ended(inv[p])
    /\ inv' = [inv EXCEPT ![p] = BlankFrame]
    /\ UNCHANGED <<isBuilding, status, canBitmap, ds, geo, fn>>

\* PDFDocument.create() settles; on success the font is embedded and the
\* logo, if any, goes to downscaleForPdf(logo, 500, 0.95)
CreateSettled(p) ==
    /\ inv[p].pc = "create"
    /\ \E ok \in BOOLEAN :
        Settle(p, IF ~ok THEN Catch(inv[p])
                  ELSE IF inv[p].args.logo # NoFile
                       THEN StartDownscale(SetStatus(inv[p], StLogo), "logo")
                       ELSE FirstPage(inv[p]))

\* loadDrawableImage settles; on success downscaleForPdf sizes the canvas,
\* asks for its 2D context, draws and calls canvas.toBlob
DecodeSettled(p) ==
    /\ inv[p].pc = "decode"
    /\ \E outcome \in {"rejected", "noContext", "ok"},
          dims \in TargetDims(CurFile(inv[p]).width, CurFile(inv[p]).height,
                              CurMaxSideH(inv[p])) :
        LET f == inv[p]
            mimeType == MimeType(CurFile(f).type)
        IN  Settle(p,
                CASE outcome = "rejected" ->
                        \* img.onerror revokes the object URL
                        Catch([f EXCEPT !.held = @ \ {Url(f)}])
                  [] outcome = "noContext" ->
                        \* revoke?.(); throw new Error("Canvas not supported ...")
                        Catch([f EXCEPT !.held = IF canBitmap
                                                 THEN @ \cup {Bitmap(f)}
                                                 ELSE @ \ {Url(f)}])
                  [] outcome = "ok" ->
                        [f EXCEPT
                            !.pc = "encode",
                            !.held = IF canBitmap THEN @ \cup {Bitmap(f)} ELSE @,
                            !.canvas = [width |-> dims.width,
                                        height |-> dims.height,
                                        mimeType |-> mimeType,
                                        quality |-> IF mimeType = "image/jpeg"
                                                    THEN CurQuality(f)
                                                    ELSE NO_QUALITY]])

\* the toBlob callback runs: with a blob the image is closed, the URL
\* revoked and blob.arrayBuffer() called; with null the promise rejects
EncodeSettled(p) ==
    /\ inv[p].pc = "encode"
    /\ \E value \in {"blob", "null"} :
        Settle(p, IF value = "null" THEN Catch(inv[p])
                  ELSE [Release(inv[p]) EXCEPT !.pc = "buffer"])

\* blob.arrayBuffer() settles; downscaleForPdf returns and generatePdf calls
\* embedPng or embedJpg
BufferSettled(p) ==
    /\ inv[p].pc = "buffer"
    /\ \E ok \in BOOLEAN :
        Settle(p, IF ~ok THEN Catch(inv[p])
                  ELSE [inv[p] EXCEPT !.pc = "embed"])

\* embedPng / embedJpg settles.  For the logo the first page follows; for an
\* image its placement, the next image or, after the last one, the
\* decoration pass and the call of pdfDoc.save()
EmbedSettled(p) ==
    /\ inv[p].pc = "embed"
    /\ \E outcome \in {"rejected", "ok", "drawThrows", "decorateThrows"},
          f \in {[inv[p] EXCEPT
                    !.embeds = Append(@, [target |-> inv[p].target, i |-> inv[p].i,
                                          embedder |-> Embedder(inv[p].canvas.mimeType)])]} :
      \E placed \in {Advance(DrawInCell(NewPageIfFull(f)))} :
        LET last == placed.i >= Len(f.args.uploads)
        IN  /\ outcome = "drawThrows" => f.target = "image"
            /\ outcome = "decorateThrows" =>
                    /\ f.target = "image" /\ last
                    /\ \/ Truthy(Trim(f.args.headerText))
                       \/ Truthy(Trim(f.args.footerText))
            /\ Settle(p,
                CASE outcome = "rejected" -> Catch(inv[p])
                  [] outcome = "drawThrows" -> Catch(NewPageIfFull(f))
                  [] outcome = "decorateThrows" ->
                        Catch([placed EXCEPT !.phase = "Decorating"])
                  [] outcome = "ok" ->
                        IF f.target = "logo"
                        THEN FirstPage([f EXCEPT !.embeddedLogo = f.canvas])
                        ELSE IF last THEN DecorateAndSave(placed)
                             ELSE BeginImage(placed))

\* pdfDoc.save() settles: the download, or the catch block; then finally
SaveSettled(p) ==
    /\ inv[p].pc = "save"
    /\ \E ok \in BOOLEAN :
        Settle(p, IF ok THEN Deliver(inv[p]) ELSE Catch(inv[p]))

----------------------------------------------------------------------------
(* The export as a system: the panel and the invocations it starts *)

NoDs == [width |-> 0, height |-> 0, maxSideH |-> 0, done |-> FALSE,
         targetWidth |-> 0, targetHeight |-> 0]
NoGeo == [g |-> NoArgs, done |-> FALSE, cellWidth |-> 0, cellHeight |-> 0,
          rowsPerPage |-> 0, frame |-> BlankFrame]

NoFn == [fileName |-> <<>>, done |-> FALSE, download |-> <<>>,
         twice |-> FALSE, again |-> <<>>]

Init ==
    /\ isBuilding = FALSE
    /\ status = StNull
    /\ canBitmap \in BOOLEAN
    /\ inv = [p \in Procs |-> BlankFrame]
    /\ ds = NoDs
    /\ geo = NoGeo
    /\ fn = NoFn

Next ==
    \E p \in Procs :
        \/ Click(p)
        \/ CreateSettled(p)
        \/ DecodeSettled(p)
        \/ EncodeSettled(p)
        \/ BufferSettled(p)
        \/ EmbedSettled(p)
        \/ SaveSettled(p)
        \/ Return(p)

Spec == Init /\ [][Next]_vars

\* every awaited operation eventually resolves or rejects, and the click
\* handler that awaits generatePdf resumes when it has
Fairness ==
    \A p \in Procs :
        /\ WF_vars(CreateSettled(p))
        /\ WF_vars(DecodeSettled(p))
        /\ WF_vars(EncodeSettled(p))
        /\ WF_vars(BufferSettled(p))
        /\ WF_vars(EmbedSettled(p))
        /\ WF_vars(SaveSettled(p))
        /\ WF_vars(Return(p))

\* the exports run under fairness: up to MaxFairUploads images in two
\* columns and one row per page, with a header, with and without a logo
FairArgs ==
    [uploads : {Uploads(n) : n \in 0..MaxFairUploads},
     pageSize : {"a4"},
     columns : {2},
     verticalPadding : {60},
     leftPadding : {11},
     rightPadding : {11},
     gutter : {4},
     maxSide : {MaxSideH},
     jpegQuality : {85},
     fileName : {<<"a">>},
     headerText : {<<"T">>},
     footerText : {<<>>},
     startingPageNumber : {1},
     logo : {NoFile, FILES[1]}]

\* the button's onClick, with the settings of FairArgs
ClickFair(p) ==
    /\ HandlersReturned
    /\ FreeSlot(p)
    /\ \E a \in (IF isBuilding THEN CallArgs(TRUE) ELSE FairArgs) :
            GeneratePdf(p, a, isBuilding)

NextFair ==
    \E p \in Procs :
        \/ ClickFair(p)
        \/ CreateSettled(p)
        \/ DecodeSettled(p)
        \/ EncodeSettled(p)
        \/ BufferSettled(p)
        \/ EmbedSettled(p)
        \/ SaveSettled(p)
        \/ Return(p)

SpecFair == Init /\ [][NextFair]_vars /\ Fairness

\* the exports started by a caller that passes any value as isBuilding: no
\* image or one image, in three columns, without logo
CallerArgs ==
    {[NoArgs EXCEPT !.uploads = Uploads(n), !.columns = 3,
                    !.verticalPadding = 11,
                    !.leftPadding = 11, !.rightPadding = 11, !.gutter = 4,
                    !.jpegQuality = 85, !.fileName = <<"a">>,
                    !.startingPageNumber = 1] : n \in 0..1}

\* generatePdf({uploads, isBuilding, ...}) called with either value of
\* isBuilding, whatever the panel's state is
CallWith(p) ==
    /\ p <= MaxOverlap
    /\ HandlersReturned
    /\ FreeSlot(p)
    /\ \E flag \in BOOLEAN, a \in CallerArgs : GeneratePdf(p, a, flag)

NextCallers ==
    \E p \in Procs :
        \/ CallWith(p)
        \/ CreateSettled(p)
        \/ DecodeSettled(p)
        \/ EncodeSettled(p)
        \/ BufferSettled(p)
        \/ EmbedSettled(p)
        \/ SaveSettled(p)
        \/ Return(p)

SpecCallers == Init /\ [][NextCallers]_vars

----------------------------------------------------------------------------
(* Properties of the export *)

InFlight == {p \in Procs : Running(inv[p])}

\* in this step generatePdf is called on frame p
Called(p) == inv[p].pc \in {"idle", "rejected"} /\ inv'[p] # inv[p]

LastStatus(f) == f.statusLog[Len(f.statusLog)]

\* C1: at most one export is in flight at any time, and a call of generatePdf
\* made while an export is in flight returns at once: it sets neither
\* isBuilding nor the status, builds nothing, delivers nothing and leaves the
\* export in flight as it was.
C1_SecondCallIsNoOp ==
    /\ [](Cardinality(InFlight) <= 1)
    /\ [][\A p \in Procs :
            (Called(p) /\ InFlight # {}) =>
                /\ inv'[p] = [BlankFrame EXCEPT !.pc = "rejected",
                                                !.args = inv'[p].args]
                /\ isBuilding' = isBuilding
                /\ status' = status
                /\ \A q \in Procs \ {p} : inv'[q] = inv[q]]_vars

\* C1 witness: an export is in flight and a second call has been turned away
C1_Witness ==
    \E p, q \in Procs :
        /\ inv[p].pc = "encode" /\ inv[p].i >= 1
        /\ inv[q].pc = "rejected" /\ Len(inv[q].args.uploads) > 0

\* C2: an invocation that passed the entry guard sets isBuilding to false
\* when it ends, however it ends, and a call made with a non-empty uploads
\* list while no export is in flight is accepted.
C2_GuardReleased ==
    /\ [][\A p \in Procs :
            (Running(inv[p]) /\ ~Running(inv'[p])) => isBuilding' = FALSE]_vars
    /\ [][\A p \in Procs :
            (Called(p) /\ InFlight = {} /\ Len(inv'[p].args.uploads) > 0)
                => Running(inv'[p])]_vars

\* C2 witness: an export has failed in the decoration pass, after its last
\* image was placed, and the flag is down again
C2_Witness ==
    \E p \in Procs :
        /\ inv[p].pc = "failed"
        /\ Len(inv[p].drawn) = Len(inv[p].args.uploads)
        /\ inv[p].decorated = <<>>
        /\ isBuilding = FALSE

\* C3: a failed export has triggered no download and ends with the error
\* status; a download has been triggered only by an export that placed every
\* image of uploads and decorated every page.
C3_NoPartialOutput ==
    \A p \in Procs :
        LET f == inv[p]
        IN  /\ f.pc = "failed" =>
                f.download = NoDownload /\ LastStatus(f) = StError
            /\ f.download # NoDownload =>
                /\ f.pc = "done"
                /\ Len(f.drawn) = Len(f.args.uploads)
                /\ f.pages >= 1
                /\ Len(f.decorated) = f.pages

\* C3 witness: an export failed with images already drawn on a second page
C3_Witness ==
    \E p \in Procs :
        /\ inv[p].pc = "failed"
        /\ inv[p].pages >= 2
        /\ Len(inv[p].drawn) >= 2
        /\ inv[p].download = NoDownload

\* the cells of one page: rowsPerPage * max(1, columns)
Capacity(f) == f.rowsPerPage * SafeColumns(f.args)

ImageStatuses(j, n) == [k \in 1..j |-> StImage(k, n)]

\* what can follow the status of image j of n
LogTails(j, n) ==
    {<<>>, <<StError>>} \cup
    (IF j = n THEN {<<StSaving>>, <<StSaving, StReady>>, <<StSaving, StError>>}
     ELSE {})

\* the status sequences that start with `head` and follow the order of the
\* phases for n images
ExportLogs(head, n) ==
    UNION {{head \o ImageStatuses(j, n) \o t : t \in LogTails(j, n)} : j \in 0..n}

PhaseRank(phase) ==
    CASE phase = "Idle" -> 0
      [] phase = "Preparing" -> 1
      [] phase = "ProcessingImage" -> 2
      [] phase = "Decorating" -> 3
      [] phase = "Serializing" -> 4
      [] phase \in {"Done", "Failed"} -> 5

\* C6 as claimed: the statuses of an export are 'Preparazione...', then
\* 'Immagine i di N...' for i = 1..N in order, then 'Sto generando il
\* PDF...', then one final status, or a prefix of that ended by the error.
C6_StatusOrderAsClaimed ==
    \A p \in Procs :
        inv[p].statusLog # <<>> =>
            inv[p].statusLog \in ExportLogs(<<StPrep>>, Len(inv[p].args.uploads))

\* C6, amended: as claimed, except that an export with a logo emits
\* 'Elaborazione logo...' between 'Preparazione...' and the first image.
\* The final status is the size summary exactly for Done and the error
\* exactly for Failed; the status of an image in work names that image; the
\* decoration pass has run only once every image is placed; the phase of a
\* running export never goes back and its statuses are only appended to.
C6_StatusOrder ==
    /\ [](\A p \in Procs :
            LET f == inv[p]
                n == Len(f.args.uploads)
            IN  /\ (Running(f) \/ Ended(f)) =>
                    f.statusLog \in
                        (IF f.args.logo = NoFile
                         THEN ExportLogs(<<StPrep>>, n)
                         ELSE {<<StPrep>>, <<StPrep, StError>>}
                              \cup ExportLogs(<<StPrep, StLogo>>, n))
                /\ ~(Running(f) \/ Ended(f)) => f.statusLog = <<>>
                /\ f.pc = "done" <=> (f.statusLog # <<>> /\ LastStatus(f) = StReady)
                /\ f.pc = "failed" <=> (f.statusLog # <<>> /\ LastStatus(f) = StError)
                /\ f.pc = "save" <=> (f.statusLog # <<>> /\ LastStatus(f) = StSaving)
                /\ (Running(f) /\ f.phase = "ProcessingImage") =>
                    LastStatus(f) = StImage(f.i + 1, n)
                /\ f.decorated # <<>> => (f.i = n /\ Len(f.drawn) = n))
    /\ [][\A p \in Procs :
            Running(inv[p]) =>
                /\ PhaseRank(inv'[p].phase) >= PhaseRank(inv[p].phase)
                /\ inv'[p].i >= inv[p].i
                /\ Len(inv'[p].statusLog) >= Len(inv[p].statusLog)
                /\ SubSeq(inv'[p].statusLog, 1, Len(inv[p].statusLog))
                        = inv[p].statusLog]_vars

\* C6 witness: a successful export of two images with a logo
C6_Witness ==
    \E p \in Procs :
        /\ inv[p].pc = "done"
        /\ inv[p].statusLog =
            <<StPrep, StLogo, StImage(1, 2), StImage(2, 2), StSaving, StReady>>

\* a text with a character that is not a space
NonBlank(text) == \E k \in 1..Len(text) : text[k] # " "

\* how many draw calls of kind op the sequence ops holds
CountOps(ops, op) == Cardinality({k \in 1..Len(ops) : ops[k].op = op})

\* C13: the decoration pass draws on every page exactly one page number,
\* startingPageNumber + the page's 0-based index, whatever the header and
\* footer texts are; it draws the header text on a page exactly when the
\* header text is non-blank and the footer text exactly when the footer text
\* is non-blank.
C13_Decoration ==
    \A p \in Procs :
        LET f == inv[p]
        IN  f.decorated # <<>> =>
                /\ Len(f.decorated) = f.pages
                /\ \A k \in 1..f.pages :
                    LET ops == f.decorated[k]
                    IN  /\ CountOps(ops, "pageNumber") = 1
                        /\ \A j \in 1..Len(ops) :
                            ops[j].op = "pageNumber" =>
                                ops[j].n = f.args.startingPageNumber + (k - 1)
                        /\ CountOps(ops, "header")
                                = (IF NonBlank(f.args.headerText) THEN 1 ELSE 0)
                        /\ CountOps(ops, "footer")
                                = (IF NonBlank(f.args.footerText) THEN 1 ELSE 0)

\* C13 witness: a successful export of two pages numbered from 5, with a
\* header and a footer of one space each: the pages carry the numbers 5 and
\* 6 and nothing else
C13_Witness ==
    \E p \in Procs :
        /\ inv[p].pc = "done"
        /\ inv[p].args.headerText = <<" ">> /\ inv[p].args.footerText = <<" ">>
        /\ inv[p].args.logo # NoFile
        /\ inv[p].decorated = << <<[op |-> "pageNumber", n |-> 5]>>,
                                 <<[op |-> "pageNumber", n |-> 6]>> >>

\* C14: every decode resource acquired by downscaleForPdf (the ImageBitmap,
\* or the object URL of the fallback image element) is released before
\* downscaleForPdf returns or throws: once an invocation is past the encode
\* step, or has ended, it holds none.
C14_ResourcesReleased ==
    \A p \in Procs :
        inv[p].pc \notin {"decode", "encode"} => inv[p].held = {}

\* what C14 fails on: an export that failed at the 2D context or at the
\* encode step still holds the bitmap or the object URL
C14_Leak ==
    \E p \in Procs : inv[p].pc = "failed" /\ inv[p].held # {}

\* the paths on which the resources are released: a failed decode, and
\* every path through a successful encode
C14_ReleasedOnOtherPaths ==
    \A p \in Procs :
        /\ inv[p].pc \in {"buffer", "embed", "save", "done"} => inv[p].held = {}
        /\ (inv[p].pc = "failed" /\ inv[p].canvas = NoImage
                /\ inv[p].embeds = <<>> /\ ~canBitmap) => inv[p].held = {}

\* the embedPng / embedJpg calls that resolved before the file now in work
EmbedsBefore(f) ==
    IF f.target = "logo" THEN 0
    ELSE f.i + (IF f.args.logo # NoFile THEN 1 ELSE 0)

\* C15: images are processed one after another: while a file is being
\* decoded or encoded every file before it (the logo, then the images in
\* order) has been embedded and drawn and its decode resource released, so
\* an export holds at most one decode resource at a time, that of the file
\* in work.
C15_Sequential ==
    \A p \in Procs :
        LET f == inv[p]
        IN  Running(f) =>
                /\ Cardinality(f.held) <= 1
                /\ f.held \subseteq {Bitmap(f), Url(f)}
                /\ f.pc \in {"decode", "encode", "buffer", "embed"} =>
                    /\ Len(f.embeds) = EmbedsBefore(f)
                    /\ Len(f.drawn) = f.i
                /\ f.pc \in {"create", "buffer", "embed", "save"} => f.held = {}

\* C15 witness: the third image is being encoded after a logo: four files
\* have been decoded, three of them embedded, and one resource is held
C15_Witness ==
    \E p \in Procs :
        /\ inv[p].pc = "encode" /\ inv[p].target = "image" /\ inv[p].i = 2
        /\ inv[p].args.logo # NoFile
        /\ Len(inv[p].embeds) = 3
        /\ Cardinality(inv[p].held) = 1

\* C16: with an empty uploads list generatePdf returns at once: it calls
\* neither setIsBuilding nor setStatus, creates no document and no page and
\* triggers no download; the flag and the status stay as they were.
C16_EmptyUploadsNoOp ==
    /\ [](\A p \in Procs :
            (inv[p].pc # "idle" /\ Len(inv[p].args.uploads) = 0) =>
                inv[p] = [BlankFrame EXCEPT !.pc = "rejected",
                                            !.args = inv[p].args])
    /\ [][\A p \in Procs :
            (Called(p) /\ Len(inv'[p].args.uploads) = 0) =>
                /\ isBuilding' = isBuilding
                /\ status' = status
                /\ \A q \in Procs \ {p} : inv'[q] = inv[q]]_vars

\* C16 witness: after a delivered export, a call with an empty uploads list
\* made while nothing is in flight has returned; the status is still the
\* size summary
C16_Witness ==
    \E p \in Procs :
        /\ inv[p].pc = "rejected"
        /\ Len(inv[p].args.uploads) = 0
        /\ inv[p].statusLog = <<>> /\ inv[p].pages = 0
        /\ inv[p].download = NoDownload
        /\ isBuilding = FALSE
        /\ status = StReady

\* C17: an export that has passed the entry guard always ends, Done or
\* Failed, with the flag released, provided every awaited operation settles;
\* until then only its own awaited operations move it: no call of
\* generatePdf and no return of a click handler changes its frame.
C17_AlwaysEnds ==
    /\ \A p \in Procs :
            Running(inv[p]) ~>
                (/\ inv[p].pc \in {"done", "failed"}
                 /\ inv[p].phase \in {"Done", "Failed"}
                 /\ LastStatus(inv[p]) \in {StReady, StError}
                 /\ isBuilding = FALSE)
    /\ [][\A p \in Procs :
            (Running(inv[p]) /\ inv'[p] # inv[p]) =>
                /\ \A q \in Procs \ {p} : inv'[q] = inv[q]
                /\ \/ Running(inv'[p]) /\ inv'[p].args = inv[p].args
                   \/ Ended(inv'[p]) /\ inv'[p].args = inv[p].args]_vars

\* C17 witness: calls of generatePdf were turned away while an export was
\* in flight, and the export has gone on to deliver its download
C17_Witness ==
    \E p, q \in Procs :
        /\ inv[p].pc = "done" /\ inv[p].download # NoDownload
        /\ Len(inv[p].args.uploads) >= 2
        /\ inv[q].pc = "rejected" /\ Len(inv[q].args.uploads) > 0
        /\ isBuilding = FALSE

\* how many times the status s was set by the invocation of frame f
CountStatus(f, s) ==
    Cardinality({k \in 1..Len(f.statusLog) : f.statusLog[k] = s})

\* C18: a failure is terminal and is not retried: an invocation sets the
\* error status at most once, as its last status, and is then Failed; the
\* failing step of a decode or encode processes nothing more; and a failed
\* invocation does nothing further: no decode, encode, embedding, drawing,
\* serialization or download (its frame only leaves with its click handler).
C18_FailureIsTerminal ==
    /\ [](\A p \in Procs :
            LET f == inv[p]
            IN  /\ CountStatus(f, StError) <= 1
                /\ CountStatus(f, StError) = 1 =>
                    /\ f.pc = "failed" /\ f.phase = "Failed"
                    /\ LastStatus(f) = StError
                /\ f.pc = "failed" =>
                    /\ CountStatus(f, StError) = 1
                    /\ f.download = NoDownload
                    /\ CountStatus(f, StReady) = 0)
    /\ [][\A p \in Procs :
            /\ (inv[p].pc \in {"decode", "encode", "buffer"}
                    /\ inv'[p].pc = "failed") =>
                /\ inv'[p].embeds = inv[p].embeds
                /\ inv'[p].drawn = inv[p].drawn
                /\ inv'[p].i = inv[p].i
                /\ inv'[p].pages = inv[p].pages
                /\ inv'[p].decorated = <<>>
            /\ inv[p].pc = "failed" =>
                (inv'[p] = inv[p] \/ inv'[p] = BlankFrame)]_vars

\* C18 witness: the decode or encode of the second of three images failed:
\* one image is embedded and drawn, the third was never begun
C18_Witness ==
    \E p \in Procs :
        /\ inv[p].pc = "failed"
        /\ Len(inv[p].args.uploads) = 3 /\ inv[p].args.logo = NoFile
        /\ inv[p].i = 1
        /\ Len(inv[p].embeds) = 1 /\ Len(inv[p].drawn) = 1
        /\ inv[p].statusLog = <<StPrep, StImage(1, 3), StImage(2, 3), StError>>

\* C19: in a successful export every element of uploads is preprocessed
\* once, embedded once and drawn once, on one page; none is skipped and none
\* is drawn twice, also when uploads holds the same file several times.
C19_EachUploadOnce ==
    \A p \in Procs :
        LET f == inv[p]
            n == Len(f.args.uploads)
        IN  f.pc = "done" =>
                \A i \in 0..(n - 1) :
                    /\ CountStatus(f, StImage(i + 1, n)) = 1
                    /\ Cardinality({k \in 1..Len(f.embeds) :
                            f.embeds[k].target = "image" /\ f.embeds[k].i = i}) = 1
                    /\ Cardinality({k \in 1..Len(f.drawn) : f.drawn[k].i = i}) = 1
                    /\ \A k \in 1..Len(f.drawn) :
                            f.drawn[k].i = i => f.drawn[k].page \in 0..(f.pages - 1)
                    /\ Len(f.drawn) = n
                    /\ Len(f.captions) = n

\* C19 witness: a successful export of the same three files, each more than
\* once, over several pages
C19_Witness ==
    \E p \in Procs :
        /\ inv[p].pc = "done"
        /\ Len(inv[p].args.uploads) = 7
        /\ inv[p].args.uploads[1] = inv[p].args.uploads[4]
        /\ inv[p].args.uploads[1] = inv[p].args.uploads[7]
        /\ inv[p].pages >= 3
        /\ Len(inv[p].drawn) = 7

\* the source file of an embedPng / embedJpg call
EmbeddedFile(f, e) ==
    IF e.target = "logo" THEN f.args.logo ELSE f.args.uploads[e.i + 1]

\* C20: the processed mime type is image/png exactly when the source file's
\* type is image/png and image/jpeg for every other type; the quality is
\* given to the encoder only for JPEG output; the bytes are embedded with
\* embedPng exactly when the processed mime type is image/png and with
\* embedJpg otherwise, for the images and for the logo.
C20_MimeAndEmbedder ==
    \A p \in Procs :
        LET f == inv[p]
        IN  /\ f.pc \in {"encode", "buffer", "embed"} =>
                /\ f.canvas.mimeType \in {"image/png", "image/jpeg"}
                /\ f.canvas.mimeType = "image/png" <=> CurFile(f).type = "image/png"
                /\ f.canvas.mimeType = "image/jpeg" <=> f.canvas.quality # NO_QUALITY
                /\ f.canvas.mimeType = "image/jpeg" =>
                    f.canvas.quality = (IF f.target = "logo" THEN 95
                                        ELSE f.args.jpegQuality)
            /\ \A k \in 1..Len(f.embeds) :
                /\ f.embeds[k].embedder \in {"embedPng", "embedJpg"}
                /\ f.embeds[k].embedder = "embedPng"
                        <=> EmbeddedFile(f, f.embeds[k]).type = "image/png"

\* C20 witness: a JPEG logo, then a PNG, a JPEG and a WebP image have been
\* embedded: embedJpg, embedPng, embedJpg, embedJpg
C20_Witness ==
    \E p \in Procs :
        /\ inv[p].args.logo # NoFile /\ inv[p].args.logo.type = "image/jpeg"
        /\ Len(inv[p].embeds) = 4
        /\ inv[p].args.uploads[3].type = "image/webp"
        /\ [k \in 1..4 |-> inv[p].embeds[k].embedder]
                = <<"embedJpg", "embedPng", "embedJpg", "embedJpg">>

CellBefore(a, b) ==
    \/ a.page < b.page
    \/ a.page = b.page /\ a.row < b.row
    \/ a.page = b.page /\ a.row = b.row /\ a.col < b.col

\* C23: the grid cursor stays in range throughout an export: after every loop
\* iteration 0 <= col < max(1, columns) and 0 <= row <= rowsPerPage; at the
\* moment an image is drawn 0 <= row < rowsPerPage; the triple (page index,
\* row, col) strictly increases in lexicographic order from one drawn image
\* to the next, so no two images of one export are drawn in the same cell of
\* the same page.
C23_CursorInRange ==
    \A p \in Procs :
        LET f == inv[p]
        IN  /\ f.pages >= 1 =>
                /\ 0 <= f.col /\ f.col < Max(1, f.args.columns)
                /\ 0 <= f.row /\ f.row <= f.rowsPerPage
            /\ \A k \in 1..Len(f.drawn) :
                /\ 0 <= f.drawn[k].row /\ f.drawn[k].row < f.rowsPerPage
                /\ 0 <= f.drawn[k].col /\ f.drawn[k].col < Max(1, f.args.columns)
                /\ 0 <= f.drawn[k].page /\ f.drawn[k].page < f.pages
            /\ \A k \in 1..(Len(f.drawn) - 1) :
                CellBefore(f.drawn[k], f.drawn[k + 1])
            /\ \A j, k \in 1..Len(f.drawn) :
                (j # k) =>
                    <<f.drawn[j].page, f.drawn[j].row, f.drawn[j].col>>
                        # <<f.drawn[k].page, f.drawn[k].row, f.drawn[k].col>>

\* C23 witness: an export whose last image filled its page, so that the loop
\* ended with row = rowsPerPage, and which before that went from the last cell
\* of the first page to the first cell of the second
C23_Witness ==
    \E p \in Procs :
        LET f == inv[p]
        IN  /\ f.pc = "done"
            /\ f.pages >= 2 /\ f.args.columns >= 2
            /\ f.row = f.rowsPerPage /\ f.col = 0
            /\ \E k \in 1..(Len(f.drawn) - 1) :
                /\ f.drawn[k].page = 0
                /\ f.drawn[k].row = f.rowsPerPage - 1
                /\ f.drawn[k].col = f.args.columns - 1
                /\ f.drawn[k + 1].page = 1
                /\ f.drawn[k + 1].row = 0 /\ f.drawn[k + 1].col = 0

\* at most one export is past the entry guard, and the panel's isBuilding
\* says whether there is one
OneExport == Cardinality(InFlight) <= 1 /\ (isBuilding <=> InFlight # {})

\* C25: when the caller always passes as isBuilding the value most recently
\* given to setIsBuilding, invocations interleaved at their awaits keep at
\* most one export past the entry guard (every step that is not a call, and
\* every call that passes the current value, keeps OneExport), and every
\* such call made with non-empty uploads while no export is past the guard is
\* accepted; a call that passes isBuilding = false with non-empty uploads
\* always proceeds, whether or not another export is running, and a call that
\* passes true never does.
C25_GuardFromArgument ==
    [][\A p \in Procs :
        /\ (OneExport /\ \A q \in Procs : ~Called(q)) => OneExport'
        /\ \A a \in CallerArgs :
            /\ (OneExport /\ FreeSlot(p) /\ GeneratePdf(p, a, isBuilding)) =>
                    /\ OneExport'
                    /\ (InFlight = {} /\ a.uploads # <<>>) =>
                            (inv'[p].pc = "create" /\ InFlight' = {p})
            /\ (FreeSlot(p) /\ a.uploads # <<>> /\ GeneratePdf(p, a, FALSE)) =>
                    (inv'[p].pc = "create" /\ isBuilding' /\ InFlight' = InFlight \cup {p})
            /\ (FreeSlot(p) /\ GeneratePdf(p, a, TRUE)) =>
                    (inv'[p].pc = "rejected" /\ InFlight' = InFlight)]_vars

\* C25 witness: a call that passed isBuilding = false while an export was
\* suspended at an await went past the guard: two exports are in flight, one
\* of them further on than the other
C25_Witness ==
    \E p, q \in Procs :
        /\ p # q
        /\ inv[p].pc = "create" /\ inv[q].pc = "embed"
        /\ isBuilding

\* the embed calls of frame f that embedded the logo
LogoEmbeds(f) == {k \in 1..Len(f.embeds) : f.embeds[k].target = "logo"}

\* the statuses of frame f that announce an image
ImageStatusAt(f) == {k \in 1..Len(f.statusLog) : f.statusLog[k][2] >= 1}

\* C26: a supplied logo is preprocessed and embedded once, before the first
\* page is created and before any image is processed; a failure of that step
\* aborts the export with no page, no image processed and no download; the
\* embedded logo is drawn only with the header: once, before the header text,
\* on every page when the header text is non-blank, and on no page when it is
\* blank, even though the logo was processed.  Without a logo nothing of this
\* happens.
C26_LogoOnceInHeader ==
    \A p \in Procs :
        LET f == inv[p]
            supplied == f.args.logo # NoFile
        IN  /\ LogoEmbeds(f) \subseteq {1}
            /\ CountStatus(f, StLogo) <= 1
            /\ \A j, k \in 1..Len(f.statusLog) :
                    (f.statusLog[j] = StLogo /\ k \in ImageStatusAt(f)) => j < k
            /\ ~supplied =>
                    /\ LogoEmbeds(f) = {} /\ CountStatus(f, StLogo) = 0
                    /\ f.embeddedLogo = NoImage /\ f.target # "logo"
            /\ supplied =>
                    /\ (f.pages >= 1 \/ ImageStatusAt(f) # {}) =>
                            /\ LogoEmbeds(f) = {1}
                            /\ CountStatus(f, StLogo) = 1
                            /\ f.embeddedLogo # NoImage
                    /\ f.embeddedLogo = NoImage =>
                            /\ f.pages = 0 /\ f.drawn = <<>> /\ f.embeds = <<>>
                            /\ ImageStatusAt(f) = {}
                            /\ f.pc # "done" /\ f.download = NoDownload
            /\ \A k \in 1..Len(f.decorated) :
                LET ops == f.decorated[k]
                IN  /\ CountOps(ops, "logo")
                            = (IF supplied /\ NonBlank(f.args.headerText) THEN 1 ELSE 0)
                    /\ \A j \in 1..Len(ops) :
                            ops[j].op = "logo" =>
                                (j < Len(ops) /\ ops[j + 1].op = "header")

\* C26 witness: a delivered export of two pages with a logo and an empty
\* header text: the logo was announced, preprocessed and embedded first, and
\* no page carries it
C26_Witness ==
    \E p \in Procs :
        /\ inv[p].pc = "done"
        /\ inv[p].args.logo # NoFile /\ inv[p].args.headerText = <<>>
        /\ inv[p].embeddedLogo # NoImage
        /\ inv[p].embeds[1].target = "logo"
        /\ Len(inv[p].embeds) >= 3
        /\ Len(inv[p].decorated) >= 2
        /\ \A k \in 1..Len(inv[p].decorated) :
                CountOps(inv[p].decorated[k], "logo") = 0

\* C26: an export that failed in the logo step, after the logo was announced:
\* no page, no image status
C26_LogoStepFailed ==
    \E p \in Procs :
        /\ inv[p].pc = "failed"
        /\ inv[p].statusLog = <<StPrep, StLogo, StError>>
        /\ inv[p].pages = 0

\* C26: a delivered export of two pages with a logo and a header text: the
\* logo is drawn on both pages
C26_LogoOnEveryPage ==
    \E p \in Procs :
        /\ inv[p].pc = "done"
        /\ inv[p].args.logo # NoFile /\ NonBlank(inv[p].args.headerText)
        /\ Len(inv[p].decorated) >= 2
        /\ \A k \in 1..Len(inv[p].decorated) :
                CountOps(inv[p].decorated[k], "logo") = 1

----------------------------------------------------------------------------
(* downscaleForPdf's size arithmetic on its own: every source size and       *)
(* every maxSide of the bounds, and the sizes of the specification's         *)
(* scenario (3200 x 1600, maxSide 1600)                                      *)

SIDES == (1..MaxDim) \cup {1600, 3200}
MAX_SIDES == (2..MaxSideH) \cup {2 * 1600}

InitDownscale ==
    /\ isBuilding = FALSE
    /\ status = StNull
    /\ canBitmap = TRUE
    /\ inv = [p \in Procs |-> BlankFrame]
    /\ geo = NoGeo
    /\ fn = NoFn
    /\ ds \in [width : SIDES, height : SIDES, maxSideH : MAX_SIDES,
               done : {FALSE}, targetWidth : {0}, targetHeight : {0}]

\* const width = image.width ... canvas.height = targetHeight (pdf.ts 230-238)
SizeCanvas ==
    /\ ~ds.done
    /\ \E dims \in TargetDims(ds.width, ds.height, ds.maxSideH) :
        ds' = [ds EXCEPT !.done = TRUE, !.targetWidth = dims.width,
                         !.targetHeight = dims.height]
    /\ UNCHANGED <<isBuilding, status, canBitmap, inv, geo, fn>>

NextDownscale == SizeCanvas

SpecDownscale == InitDownscale /\ [][NextDownscale]_vars

Abs(x) == IF x >= 0 THEN x ELSE -x

\* C7: for every maxSide >= 1 and every source of positive integer
\* dimensions the output has positive dimensions with
\* max(outW, outH) <= maxSide.
C7_MaxSideAsClaimed ==
    ds.done =>
        /\ ds.targetWidth >= 1 /\ ds.targetHeight >= 1
        /\ 2 * Max(ds.targetWidth, ds.targetHeight) <= ds.maxSideH

\* C7 restricted to integer maxSide: the output has positive dimensions with
\* max(outW, outH) <= maxSide; 3200 x 1600 with maxSide 1600 gives 1600 x 800.
C7_MaxSide ==
    (ds.done /\ ds.maxSideH % 2 = 0) =>
        /\ ds.targetWidth >= 1 /\ ds.targetHeight >= 1
        /\ 2 * Max(ds.targetWidth, ds.targetHeight) <= ds.maxSideH
        /\ (ds.width = 3200 /\ ds.height = 1600 /\ ds.maxSideH = 2 * 1600) =>
                (ds.targetWidth = 1600 /\ ds.targetHeight = 800)

\* the 3200 x 1600 source downscaled to maxSide 1600
C7_Witness ==
    /\ ds.done
    /\ ds.width = 3200 /\ ds.height = 1600 /\ ds.maxSideH = 2 * 1600
    /\ ds.targetWidth = 1600 /\ ds.targetHeight = 800

\* C8: downscaleForPdf never upscales: no output dimension exceeds the
\* source's, and a source with max(w, h) <= maxSide keeps its dimensions.
C8_NeverUpscales ==
    ds.done =>
        /\ ds.targetWidth <= ds.width /\ ds.targetHeight <= ds.height
        /\ 2 * Max(ds.width, ds.height) <= ds.maxSideH =>
                (ds.targetWidth = ds.width /\ ds.targetHeight = ds.height)

\* C8 witness: a source strictly smaller than maxSide came out unchanged
C8_Witness ==
    /\ ds.done
    /\ ds.width >= 2 /\ ds.height >= 2 /\ ds.width # ds.height
    /\ 2 * Max(ds.width, ds.height) < ds.maxSideH
    /\ ds.targetWidth = ds.width /\ ds.targetHeight = ds.height

\* |target - side * num / den| <= 1/2
WithinHalfPixel(target, side, num, den) ==
    2 * Abs(target * den - side * num) <= den

\* C9 as claimed: each output dimension is within 1/2 pixel of the exact
\* scaled value, also where the dimension is floored at 1.
C9_HalfPixelAsClaimed ==
    ds.done =>
        LET num == IF 2 * Max(ds.width, ds.height) <= ds.maxSideH THEN 1
                   ELSE ds.maxSideH
            den == IF 2 * Max(ds.width, ds.height) <= ds.maxSideH THEN 1
                   ELSE 2 * Max(ds.width, ds.height)
        IN  /\ WithinHalfPixel(ds.targetWidth, ds.width, num, den)
            /\ WithinHalfPixel(ds.targetHeight, ds.height, num, den)

\* C9, amended: each output dimension is within 1/2 pixel of the exact scaled
\* value when that value is at least 1/2; a side that scales to less than
\* 1/2 pixel comes out as 1, more than 1/2 pixel above its exact value.
C9_HalfPixel ==
    ds.done =>
        LET num == IF 2 * Max(ds.width, ds.height) <= ds.maxSideH THEN 1
                   ELSE ds.maxSideH
            den == IF 2 * Max(ds.width, ds.height) <= ds.maxSideH THEN 1
                   ELSE 2 * Max(ds.width, ds.height)
        IN  /\ IF 2 * ds.width * num >= den
               THEN WithinHalfPixel(ds.targetWidth, ds.width, num, den)
               ELSE ds.targetWidth = 1
            /\ IF 2 * ds.height * num >= den
               THEN WithinHalfPixel(ds.targetHeight, ds.height, num, den)
               ELSE ds.targetHeight = 1

\* C9 witness: a 1 x 7 source at maxSide 1: the width scales to 1/7 and
\* comes out as 1, the height as 1
C9_Witness ==
    /\ ds.done
    /\ ds.width = 1 /\ ds.height = 7 /\ ds.maxSideH = 2
    /\ ds.targetWidth = 1 /\ ds.targetHeight = 1

----------------------------------------------------------------------------
(* generatePdf's grid geometry on its own *)

GeometryArgs ==
    {[NoArgs EXCEPT !.uploads = Uploads(MaxPlaced),
                    !.pageSize = ps, !.columns = c, !.verticalPadding = v,
                    !.leftPadding = l, !.rightPadding = r, !.gutter = gu,
                    !.headerText = h] :
        ps \in DOMAIN PAGE_PRESETS, c \in (0 - 1)..MaxColumns, v \in {0, 11, 60},
        l \in {0, 11, 100}, r \in {0, 11, 120}, gu \in {0, 4, 15}, h \in TEXTS}
    \cup
    \* A4 in two columns of 89 mm with a gutter of 10 mm and paddings of 5 and
    \* 11 mm: 297 mm of free height over a row pitch of 99 mm
    {[NoArgs EXCEPT !.uploads = Uploads(MaxPlaced),
                    !.pageSize = "a4", !.columns = 2, !.verticalPadding = 5,
                    !.leftPadding = 11, !.rightPadding = 11, !.gutter = 10,
                    !.headerText = h] : h \in TEXTS}

InitGeometry ==
    /\ isBuilding = FALSE
    /\ status = StNull
    /\ canBitmap = TRUE
    /\ inv = [p \in Procs |-> BlankFrame]
    /\ ds = NoDs
    /\ fn = NoFn
    /\ geo \in [g : GeometryArgs, done : {FALSE}, cellWidth : {0},
                cellHeight : {0}, rowsPerPage : {0}, frame : {BlankFrame}]

\* const PT_PER_MM = ... const rowsPerPage = ... (pdf.ts 49-69), and the
\* first page with the cursor at (0, 0) (pdf.ts 85-87)
Layout ==
    /\ ~geo.done
    /\ \E rows \in RowsPerPage(geo.g) :
        geo' = [geo EXCEPT !.done = TRUE, !.cellWidth = CellWidth(geo.g),
                           !.cellHeight = CellHeight(geo.g),
                           !.rowsPerPage = rows,
                           !.frame = [BlankFrame EXCEPT !.args = geo.g,
                                                        !.rowsPerPage = rows,
                                                        !.target = "image",
                                                        !.pages = 1]]
    /\ UNCHANGED <<isBuilding, status, canBitmap, inv, ds, fn>>

\* one iteration of the image loop, from the page test to the cursor's
\* advance (pdf.ts 98-136)
PlaceImage ==
    /\ geo.done
    /\ geo.frame.i < Len(geo.g.uploads)
    /\ geo' = [geo EXCEPT !.frame = Advance(DrawInCell(NewPageIfFull(geo.frame)))]
    /\ UNCHANGED <<isBuilding, status, canBitmap, inv, ds, fn>>

NextGeometry == Layout \/ PlaceImage

SpecGeometry == InitGeometry /\ [][NextGeometry]_vars

\* C10: for every page preset, columns >= 1, padding and gutter the cell
\* width is at least 40 pt, it is the larger of 40 pt and
\* (pageWidth - leftPad - rightPad - gutter * (columns - 1)) / columns, and
\* the cell height equals the cell width.  (Widths are in units of
\* 1 / (127 * columns) pt.)
C10_CellWidthFloor ==
    (geo.done /\ geo.g.columns >= 1) =>
        LET c == geo.g.columns
            free == Mm(PAGE_PRESETS[geo.g.pageSize].width) - Mm(geo.g.leftPadding)
                        - Mm(geo.g.rightPadding) - Mm(geo.g.gutter) * (c - 1)
        IN  /\ geo.cellWidth >= Pt(40) * c
            /\ geo.cellWidth >= free
            /\ geo.cellWidth \in {Pt(40) * c, free}
            /\ geo.cellHeight = geo.cellWidth

\* C10 witness: paddings that leave less than 40 pt per column: the cell is
\* 40 pt wide and high
C10_Witness ==
    /\ geo.done
    /\ geo.g.columns >= 2
    /\ FreeWidth(geo.g) < Pt(40) * geo.g.columns
    /\ geo.cellWidth = Pt(40) * geo.g.columns
    /\ geo.cellHeight = Pt(40) * geo.g.columns

\* the same geometry with columns = 1
OneColumn(g) == [g EXCEPT !.columns = 1]

\* C11: a columns value below 1 is treated as 1: the cell width, the rows per
\* page, the cell positions and the cursor wrap are those of columns = 1,
\* and every image is placed in column 0.
C11_ColumnsBelowOne ==
    (geo.done /\ geo.g.columns < 1) =>
        LET g1 == OneColumn(geo.g)
            free1 == Mm(PAGE_PRESETS[geo.g.pageSize].width)
                        - Mm(geo.g.leftPadding) - Mm(geo.g.rightPadding)
        IN  /\ geo.cellWidth = Max(Pt(40), free1)
            /\ geo.cellHeight = geo.cellWidth
            /\ geo.rowsPerPage \in RowsPerPage(g1)
            /\ \A k \in 1..Len(geo.frame.drawn) :
                LET d == geo.frame.drawn[k]
                IN  /\ d.col = 0
                    /\ d.row = (k - 1) % geo.rowsPerPage
                    /\ d.page = (k - 1) \div geo.rowsPerPage
                    /\ d.x = Mm(geo.g.leftPadding)
                    /\ d.y = CellY(g1, d.row)
            /\ geo.frame.col = 0

\* C11 witness: columns = -1, a positive gutter and a cell wider than 40 pt:
\* the images have gone down column 0 onto a second page
C11_Witness ==
    /\ geo.done
    /\ geo.g.columns = 0 - 1 /\ geo.g.gutter > 0
    /\ geo.cellWidth > Pt(40)
    /\ Len(geo.frame.drawn) >= 3
    /\ geo.frame.pages >= 2
    /\ \A k \in 1..Len(geo.frame.drawn) : geo.frame.drawn[k].col = 0

\* C22: rowsPerPage is at least 1 for every geometry and equals
\* max(1, floor((pageHeight - headerSpace - 2 * verticalPad + gutter)
\*              / (cellHeight + gutter))), where headerSpace is 40 pt when the
\* header text is non-blank and 0 otherwise; a non-blank header never gives
\* more rows per page than a blank header with the same geometry, and the
\* space is reserved exactly when the decoration pass draws the header.
C22_RowsPerPageAsClaimed ==
    geo.done =>
        LET g == geo.g
            columns == Max(1, g.columns)
            headerSpace == IF NonBlank(g.headerText) THEN Pt(HEADER_SPACE_PT) ELSE 0
            free == (Mm(PAGE_PRESETS[g.pageSize].height) - headerSpace
                        - 2 * Mm(g.verticalPadding) + Mm(g.gutter)) * columns
            pitch == geo.cellHeight + Mm(g.gutter) * columns
        IN  /\ geo.rowsPerPage >= 1
            /\ geo.rowsPerPage = Max(1, FloorDiv(free, pitch))
            /\ NonBlank(g.headerText) =>
                    \A rows \in RowsPerPage([g EXCEPT !.headerText = <<>>]) :
                        geo.rowsPerPage <= rows
            /\ \A index \in 0..(geo.frame.pages - 1) :
                    (CountOps(DecoratePage(geo.frame, index), "header") = 1)
                        <=> (HeaderSpace(g) = Pt(HEADER_SPACE_PT))

\* C22, the case that fails: A4 in two columns, vertical padding 5 mm, side
\* paddings 11 mm, gutter 10 mm, no header; the quotient is exactly 3 and the
\* layout has 2 rows per page
C22_RowLost ==
    /\ geo.done
    /\ geo.g.pageSize = "a4" /\ geo.g.columns = 2 /\ geo.g.gutter = 10
    /\ geo.g.verticalPadding = 5 /\ geo.g.headerText = <<>>
    /\ FreeHeight(geo.g) = 3 * RowPitch(geo.g)
    /\ geo.rowsPerPage = 2

\* C22, what does hold: rowsPerPage is at least 1, it is the claimed value or,
\* when the quotient is a whole number, possibly one less, a non-blank header
\* never gives more rows than a blank one, and the space is reserved exactly
\* when the header is drawn
C22_RowsWithinOne ==
    geo.done =>
        LET g == geo.g
            columns == Max(1, g.columns)
            headerSpace == IF NonBlank(g.headerText) THEN Pt(HEADER_SPACE_PT) ELSE 0
            free == (Mm(PAGE_PRESETS[g.pageSize].height) - headerSpace
                        - 2 * Mm(g.verticalPadding) + Mm(g.gutter)) * columns
            pitch == geo.cellHeight + Mm(g.gutter) * columns
            k == Max(1, FloorDiv(free, pitch))
        IN  /\ geo.rowsPerPage >= 1
            /\ \/ geo.rowsPerPage = k
               \/ free % pitch = 0 /\ geo.rowsPerPage = Max(1, k - 1)
            /\ NonBlank(g.headerText) =>
                    \A rows \in RowsPerPage([g EXCEPT !.headerText = <<>>]) :
                        geo.rowsPerPage <= rows
            /\ \A index \in 0..(geo.frame.pages - 1) :
                    (CountOps(DecoratePage(geo.frame, index), "header") = 1)
                        <=> (HeaderSpace(g) = Pt(HEADER_SPACE_PT))

\* the cell with lower left corner (x, y) lies inside the padded content
\* area of the page: leftPad <= x, x + cellWidth <= pageWidth - rightPad,
\* verticalPad <= y, y + cellHeight <= pageHeight - headerSpace - verticalPad
\* (all in units of 1 / (127 * max(1, columns)) pt)
InsideContentArea(g, x, y) ==
    LET C == Max(1, g.columns)
    IN  /\ Mm(g.leftPadding) * C <= x
        /\ x + CellWidth(g)
                <= (Mm(PAGE_PRESETS[g.pageSize].width) - Mm(g.rightPadding)) * C
        /\ Mm(g.verticalPadding) * C <= y
        /\ y + CellHeight(g)
                <= (Mm(PAGE_PRESETS[g.pageSize].height) - HeaderSpace(g)
                        - Mm(g.verticalPadding)) * C

\* neither clamp is active: the unclamped cell width is at least 40 pt and
\* the unclamped row count is at least 1
NoClampActive(g) ==
    /\ FreeWidth(g) >= Pt(MIN_CELL_PT) * Max(1, g.columns)
    /\ FloorDiv(FreeHeight(g), RowPitch(g)) >= 1

----------------------------------------------------------------------------
(* generatePdf's file name cleanup on its own (pdf.ts 210-213) *)

NAME_CHARS == {" ", "a", ".", "p", "d", "f"}

\* the texts of at most n characters
NamesUpTo(n) == UNION {[1..k -> NAME_CHARS] : k \in 0..n}

InitFileName ==
    /\ isBuilding = FALSE
    /\ status = StNull
    /\ canBitmap = TRUE
    /\ inv = [p \in Procs |-> BlankFrame]
    /\ ds = NoDs
    /\ geo = NoGeo
    /\ fn \in [fileName : NamesUpTo(MaxNameLen), done : {FALSE},
               download : {<<>>}, twice : {FALSE}, again : {<<>>}]

\* link.download for fileName
CleanName ==
    /\ ~fn.done
    /\ fn' = [fn EXCEPT !.done = TRUE, !.download = DownloadName(fn.fileName)]
    /\ UNCHANGED <<isBuilding, status, canBitmap, inv, ds, geo>>

\* link.download for a fileName that is an earlier download name
CleanAgain ==
    /\ fn.done /\ ~fn.twice
    /\ fn' = [fn EXCEPT !.twice = TRUE, !.again = DownloadName(fn.download)]
    /\ UNCHANGED <<isBuilding, status, canBitmap, inv, ds, geo>>

NextFileName == CleanName \/ CleanAgain

SpecFileName == InitFileName /\ [][NextFileName]_vars

DOT_PDF == <<".", "p", "d", "f">>
DEFAULT_NAME == <<"r", "i", "s", "u", "l", "t", "a", "t", "o">> \o DOT_PDF

\* s ends with t
HasSuffix(s, t) ==
    Len(s) >= Len(t) /\ \A k \in 1..Len(t) : s[Len(s) - Len(t) + k] = t[k]

\* s without the spaces at its two ends
Stripped(s) ==
    LET keep == {k \in 1..Len(s) : s[k] # " "}
    IN  IF keep = {} THEN <<>>
        ELSE SubSeq(s, CHOOSE k \in keep : \A j \in keep : k <= j,
                       CHOOSE k \in keep : \A j \in keep : k >= j)

\* C12: the download name is the trimmed fileName, the default name
\* 'risultato.pdf' for a blank one, with '.pdf' appended unless the trimmed
\* name ends in '.pdf'; it always ends in '.pdf', 'a' and 'a.pdf' give the
\* same name, and the cleanup of a download name is that name.
C12_FileNameCleanup ==
    /\ fn.done =>
        LET t == Stripped(fn.fileName)
        IN  /\ HasSuffix(fn.download, DOT_PDF)
            /\ t = <<>> => fn.download = DEFAULT_NAME
            /\ (t # <<>> /\ HasSuffix(t, DOT_PDF)) => fn.download = t
            /\ (t # <<>> /\ ~HasSuffix(t, DOT_PDF)) => fn.download = t \o DOT_PDF
            /\ fn.fileName \in {<<"a">>, <<"a">> \o DOT_PDF} =>
                    fn.download = <<"a">> \o DOT_PDF
    /\ fn.twice => fn.again = fn.download

\* C12 witness: 'a.pdf' was kept as it is, and the cleanup of the result
\* has given the result again
C12_Witness ==
    /\ fn.twice
    /\ fn.fileName = <<"a">> \o DOT_PDF
    /\ fn.download = fn.fileName
    /\ fn.again = fn.download

=============================================================================
